---- MODULE Spec2Model ----
(***************************************************************************)
(* Model of the project scaffolding tool of src/main.js.  The file holds   *)
(* three revisions of the tool:                                            *)
(*   "events"  lines   1-251  createProject as a named-event chain         *)
(*   "direct"  lines 253-396  createProject as nested callbacks, execSync  *)
(*   "safe"    lines 398-674  createProject as nested callbacks, safeExec  *)
(* File contents are texts: sequences of one-character strings.  JSON is   *)
(* parsed and written character by character, so that comment stripping,  *)
(* parsing and serialisation are what the code does and not the identity.  *)
(***************************************************************************)
EXTENDS Integers, Sequences, FiniteSets, TLC

(***************************************************************************)
(* Bounds of the model.                                                    *)
(***************************************************************************)
\* longest line typed at a prompt
MaxAnswerLen == 2
\* longest string value of a pre-existing compiler option
MaxValueLen == 2
\* most consecutive Config Merger passes over one file
MaxPasses == 2

(***************************************************************************)
(* Texts.                                                                  *)
(***************************************************************************)
NL == "\n"
QUOTE == "\""
\* the white space of \s, of String.prototype.trim and of JSON that the
\* model's alphabet holds
WS == {" ", NL, "\t"}
Digits == {"0", "1", "2", "3", "4", "5", "6", "7", "8", "9"}

\* every text of length at most n over the alphabet
TextsUpTo(alphabet, n) == UNION {[1..k -> alphabet] : k \in 0..n}

RECURSIVE SkipWs(_, _)
\* the first position at or after i that holds no white space (Len(s)+1 if none)
SkipWs(s, i) ==
    IF i <= Len(s) /\ s[i] \in WS THEN SkipWs(s, i + 1) ELSE i

RECURSIVE SkipWsBack(_, _)
SkipWsBack(s, i) ==
    IF i >= 1 /\ s[i] \in WS THEN SkipWsBack(s, i - 1) ELSE i

\* String.prototype.trim
Trim(s) == SubSeq(s, SkipWs(s, 1), SkipWsBack(s, Len(s)))

\* String.prototype.toLowerCase, on the letters of the model's alphabet
LowerChar(c) == IF c = "N" THEN "n" ELSE IF c = "Y" THEN "y" ELSE c
ToLowerCase(s) == [i \in 1..Len(s) |-> LowerChar(s[i])]

RECURSIVE Pick(_, _, _, _)
\* the characters of s at the positions of lo..hi that are in keep, in order
Pick(s, keep, lo, hi) ==
    IF lo > hi THEN <<>>
    ELSE IF lo = hi THEN (IF lo \in keep THEN <<s[lo]>> ELSE <<>>)
    ELSE Pick(s, keep, lo, (lo + hi) \div 2) \o Pick(s, keep, (lo + hi) \div 2 + 1, hi)

\* s without the characters at the positions in gone
Without(s, gone) == Pick(s, (1..Len(s)) \ gone, 1, Len(s))

\* .replace(/\/\/.*$/gm, ''): on each line, all from its first "//" on
StripLineComments(s) ==
    LET starts   == {j \in 1..(Len(s) - 1) : s[j] = "/" /\ s[j + 1] = "/"}
        newlines == {k \in 1..Len(s) : s[k] = NL}
        gone     == {i \in 1..Len(s) :
                        /\ s[i] # NL
                        /\ \E j \in starts :
                              j <= i /\ ~\E k \in newlines : j < k /\ k < i}
    IN  Without(s, gone)

\* the least k >= j with "*/" at k, or 0
FindBlockEnd(s, j) ==
    LET ends == {k \in j..(Len(s) - 1) : s[k] = "*" /\ s[k + 1] = "/"}
    IN  IF ends = {} THEN 0 ELSE CHOOSE k \in ends : \A m \in ends : k <= m

RECURSIVE StripBlockComments(_, _)
\* .replace(/\/\*[\s\S]*?\*\//g, '') from position i on: each "/*" that has
\* a "*/" after it goes with all up to the nearest one, and the search goes
\* on behind it
StripBlockComments(s, i) ==
    LET opens == {j \in i..(Len(s) - 1) :
                     s[j] = "/" /\ s[j + 1] = "*" /\ FindBlockEnd(s, j + 2) # 0}
        open  == CHOOSE j \in opens : \A m \in opens : j <= m
    IN  IF opens = {} THEN SubSeq(s, i, Len(s))
        ELSE SubSeq(s, i, open - 1) \o StripBlockComments(s, FindBlockEnd(s, open + 2) + 2)

\* .replace(/,\s*}/g, '}') and .replace(/,\s*]/g, ']'): each comma that only
\* white space parts from the closing character goes, with that white space
StripTrailingCommas(s, close) ==
    LET commas == {c \in 1..Len(s) :
                      /\ s[c] = ","
                      /\ SkipWs(s, c + 1) <= Len(s)
                      /\ s[SkipWs(s, c + 1)] = close}
    IN  Without(s, UNION {c..(SkipWs(s, c + 1) - 1) : c \in commas})

removeJsonComments(jsonString) ==
    LET a == StripLineComments(jsonString)
        b == StripBlockComments(a, 1)
        c == StripTrailingCommas(b, "}")
        d == StripTrailingCommas(c, "]")
    IN  Trim(d)

(***************************************************************************)
(* JSON values.  A value is a record [t, s, m]: t its kind, s the text of  *)
(* a string, number or literal, m the members of an object (key and value  *)
(* pairs in insertion order) or the elements of an array (pairs with an    *)
(* empty key).                                                             *)
(***************************************************************************)
JStr(s) == [t |-> "str", s |-> s, m |-> <<>>]
JNum(s) == [t |-> "num", s |-> s, m |-> <<>>]
JLit(s) == [t |-> "lit", s |-> s, m |-> <<>>]
JObj(m) == [t |-> "obj", s |-> <<>>, m |-> m]
JArr(m) == [t |-> "arr", s |-> <<>>, m |-> m]
JTrue == JLit(<<"t", "r", "u", "e">>)
JFalse == JLit(<<"f", "a", "l", "s", "e">>)
JNull == JLit(<<"n", "u", "l", "l">>)
\* what reading a property that is not there gives
Undefined == [t |-> "undefined", s |-> <<>>, m |-> <<>>]
\* an array of strings
JStrings(ss) == JArr([i \in 1..Len(ss) |-> <<<<>>, JStr(ss[i])>>])

HasKey(m, k) == \E i \in 1..Len(m) : m[i][1] = k
\* the value of key k in the members m
Get(m, k) ==
    IF HasKey(m, k) THEN m[CHOOSE i \in 1..Len(m) : m[i][1] = k][2] ELSE Undefined
\* obj[k] = v: an existing key keeps its place, a new key goes last
Put(m, k, v) ==
    IF HasKey(m, k)
    THEN [i \in 1..Len(m) |-> IF m[i][1] = k THEN <<k, v>> ELSE m[i]]
    ELSE Append(m, <<k, v>>)

RECURSIVE PutAll(_, _, _)
\* { ...a, ...b } from position i of b on
PutAll(a, b, i) ==
    IF i > Len(b) THEN a ELSE PutAll(Put(a, b[i][1], b[i][2]), b, i + 1)

\* the members an object spread copies: the own properties of an object,
\* nothing of undefined, null, a boolean or a number (the index keys of a
\* string or an array are outside the inputs of the model)
SpreadOf(v) == IF v.t = "obj" THEN v.m ELSE <<>>

\* JavaScript's truthiness, for x || y
Truthy(v) ==
    CASE v.t = "undefined" -> FALSE
      [] v.t = "lit" -> v = JTrue
      [] v.t = "str" -> v.s # <<>>
      [] v.t = "num" -> v.s # <<"0">>
      [] OTHER -> TRUE

(***************************************************************************)
(* JSON.parse, on texts without escapes, fractions and exponents.          *)
(***************************************************************************)
ParseFail == [ok |-> FALSE, v |-> Undefined, p |-> 0]
Parsed(v, p) == [ok |-> TRUE, v |-> v, p |-> p]

RECURSIVE StringEnd(_, _)
\* the position of the quote closing a string whose text starts at i, or 0
StringEnd(s, i) ==
    IF i > Len(s) THEN 0
    ELSE IF s[i] = QUOTE THEN i
    ELSE IF s[i] \in {NL, "\t", "\\"} THEN 0
    ELSE StringEnd(s, i + 1)

ParseString(s, i) ==
    IF i <= Len(s) /\ s[i] = QUOTE /\ StringEnd(s, i + 1) # 0
    THEN Parsed(JStr(SubSeq(s, i + 1, StringEnd(s, i + 1) - 1)), StringEnd(s, i + 1) + 1)
    ELSE ParseFail

RECURSIVE DigitsEnd(_, _)
DigitsEnd(s, i) ==
    IF i <= Len(s) /\ s[i] \in Digits THEN DigitsEnd(s, i + 1) ELSE i

ParseNumber(s, i) ==
    LET e == IF s[i] = "0" THEN i + 1 ELSE DigitsEnd(s, i)
    IN  Parsed(JNum(SubSeq(s, i, e - 1)), e)

StartsWith(s, i, w) ==
    /\ i + Len(w) - 1 <= Len(s)
    /\ SubSeq(s, i, i + Len(w) - 1) = w

ParseLiteral(s, i) ==
    IF StartsWith(s, i, JTrue.s) THEN Parsed(JTrue, i + 4)
    ELSE IF StartsWith(s, i, JFalse.s) THEN Parsed(JFalse, i + 5)
    ELSE IF StartsWith(s, i, JNull.s) THEN Parsed(JNull, i + 4)
    ELSE ParseFail

RECURSIVE ParseValue(_, _)
RECURSIVE ParseMembers(_, _, _)
RECURSIVE ParseElements(_, _, _)

ParseValue(s, i0) ==
    LET i == SkipWs(s, i0)
    IN  IF i > Len(s) THEN ParseFail
        ELSE IF s[i] = QUOTE THEN ParseString(s, i)
        ELSE IF s[i] \in Digits THEN ParseNumber(s, i)
        ELSE IF s[i] = "{"
             THEN IF SkipWs(s, i + 1) <= Len(s) /\ s[SkipWs(s, i + 1)] = "}"
                  THEN Parsed(JObj(<<>>), SkipWs(s, i + 1) + 1)
                  ELSE ParseMembers(s, i + 1, <<>>)
        ELSE IF s[i] = "["
             THEN IF SkipWs(s, i + 1) <= Len(s) /\ s[SkipWs(s, i + 1)] = "]"
                  THEN Parsed(JArr(<<>>), SkipWs(s, i + 1) + 1)
                  ELSE ParseElements(s, i + 1, <<>>)
        ELSE ParseLiteral(s, i)

\* the members of an object from position i0 on, up to its closing brace
ParseMembers(s, i0, acc) ==
    LET key   == ParseString(s, SkipWs(s, i0))
        colon == SkipWs(s, key.p)
        val   == ParseValue(s, colon + 1)
        next  == SkipWs(s, val.p)
    IN  IF ~key.ok \/ colon > Len(s) \/ s[colon] # ":" THEN ParseFail
        ELSE IF ~val.ok \/ next > Len(s) THEN ParseFail
        ELSE IF s[next] = "," THEN ParseMembers(s, next + 1, Put(acc, key.v.s, val.v))
        ELSE IF s[next] = "}" THEN Parsed(JObj(Put(acc, key.v.s, val.v)), next + 1)
        ELSE ParseFail

\* the elements of an array from position i0 on, up to its closing bracket
ParseElements(s, i0, acc) ==
    LET val  == ParseValue(s, i0)
        next == SkipWs(s, val.p)
    IN  IF ~val.ok \/ next > Len(s) THEN ParseFail
        ELSE IF s[next] = "," THEN ParseElements(s, next + 1, Append(acc, <<<<>>, val.v>>))
        ELSE IF s[next] = "]" THEN Parsed(JArr(Append(acc, <<<<>>, val.v>>)), next + 1)
        ELSE ParseFail

\* JSON.parse(text): [ok, v]; ok is FALSE where JSON.parse throws
JsonParse(text) ==
    LET r == ParseValue(text, 1)
    IN  IF r.ok /\ SkipWs(text, r.p) = Len(text) + 1
        THEN [ok |-> TRUE, v |-> r.v]
        ELSE [ok |-> FALSE, v |-> Undefined]

(***************************************************************************)
(* JSON.stringify(data, null, 2).                                          *)
(***************************************************************************)
RECURSIVE Spaces(_)
Spaces(n) == IF n = 0 THEN <<>> ELSE <<" ">> \o Spaces(n - 1)

RECURSIVE Stringify(_, _)
RECURSIVE StringifyMembers(_, _, _, _)

Stringify(v, depth) ==
    CASE v.t = "str" -> <<QUOTE>> \o v.s \o <<QUOTE>>
      [] v.t \in {"num", "lit"} -> v.s
      [] v.t = "obj" ->
            IF v.m = <<>> THEN <<"{", "}">>
            ELSE <<"{", NL>> \o StringifyMembers(v.m, 1, depth + 1, TRUE)
                 \o <<NL>> \o Spaces(2 * depth) \o <<"}">>
      [] v.t = "arr" ->
            IF v.m = <<>> THEN <<"[", "]">>
            ELSE <<"[", NL>> \o StringifyMembers(v.m, 1, depth + 1, FALSE)
                 \o <<NL>> \o Spaces(2 * depth) \o <<"]">>

StringifyMembers(m, i, depth, keyed) ==
    LET head == Spaces(2 * depth)
                \o (IF keyed THEN <<QUOTE>> \o m[i][1] \o <<QUOTE, ":", " ">> ELSE <<>>)
                \o Stringify(m[i][2], depth)
    IN  IF i = Len(m) THEN head
        ELSE head \o <<",", NL>> \o StringifyMembers(m, i + 1, depth, keyed)

JsonStringify(data) == Stringify(data, 0)

(***************************************************************************)
(* The Config Merger: setupTsConfig.                                       *)
(***************************************************************************)
\* the compilerOptions of the tsconfig literal of setupTsConfig
CanonicalOptions ==
    << <<<<"m", "o", "d", "u", "l", "e">>, JStr(<<"E", "S", "N", "e", "x", "t">>)>>,
       <<<<"t", "a", "r", "g", "e", "t">>, JStr(<<"E", "S", "2", "0", "2", "0">>)>>,
       <<<<"o", "u", "t", "D", "i", "r">>, JStr(<<"d", "i", "s", "t">>)>>,
       <<<<"r", "o", "o", "t", "D", "i", "r">>, JStr(<<"s", "r", "c">>)>>,
       <<<<"s", "t", "r", "i", "c", "t">>, JTrue>>,
       <<<<"e", "s", "M", "o", "d", "u", "l", "e", "I", "n", "t", "e", "r", "o", "p">>, JTrue>>,
       <<<<"m", "o", "d", "u", "l", "e", "R", "e", "s", "o", "l", "u", "t", "i", "o", "n">>,
           JStr(<<"n", "o", "d", "e">>)>> >>

CompilerOptionsKey == <<"c", "o", "m", "p", "i", "l", "e", "r", "O", "p", "t", "i", "o", "n", "s">>

\* the tsconfig literal of setupTsConfig
DefaultTsConfig ==
    JObj(<< <<CompilerOptionsKey, JObj(CanonicalOptions)>>,
            <<<<"i", "n", "c", "l", "u", "d", "e">>, JStrings(<<<<"s", "r", "c", "/", "*", "*",
                "/", "*">>>>)>>,
            <<<<"e", "x", "c", "l", "u", "d", "e">>, JStrings(<<<<"n", "o", "d", "e", "_", "m",
                "o", "d", "u", "l", "e", "s">>, <<"d", "i", "s", "t">>>>)>> >>)

\* a merge that spreads the canonical options first and the existing ones
\* over them
MergeExistingOnTop(content) ==
    IF ~JsonParse(removeJsonComments(content)).ok
       \/ JsonParse(removeJsonComments(content)).v = JNull
    THEN [threw |-> TRUE, options |-> CanonicalOptions]
    ELSE [threw |-> FALSE,
          options |-> PutAll(CanonicalOptions,
                             SpreadOf(IF JsonParse(removeJsonComments(content)).v.t = "obj"
                                      THEN Get(JsonParse(removeJsonComments(content)).v.m,
                                               CompilerOptionsKey)
                                      ELSE Undefined), 1)]

\* the try block of setupTsConfig on the text of an existing tsconfig.json:
\* threw where JSON.parse throws or parsed is null (parsed.compilerOptions
\* is a TypeError then), else the merged compilerOptions
MergeExisting(content) ==
    LET cleanJson == removeJsonComments(content)
        parsed    == JsonParse(cleanJson)
        options   == IF parsed.v.t = "obj" THEN Get(parsed.v.m, CompilerOptionsKey)
                     ELSE Undefined
    IN  IF ~parsed.ok \/ parsed.v = JNull
        THEN [threw |-> TRUE, options |-> CanonicalOptions]
        ELSE [threw |-> FALSE, options |-> PutAll(SpreadOf(options), CanonicalOptions, 1)]

\* a setupTsConfig whose catch block logs nothing
setupTsConfigQuiet(file) ==
    IF ~file.exists THEN [tsconfig |-> DefaultTsConfig, warned |-> FALSE]
    ELSE [tsconfig |-> JObj(Put(DefaultTsConfig.m, CompilerOptionsKey,
                                JObj(MergeExisting(file.text).options))),
          warned |-> FALSE]

\* setupTsConfig up to its write: the object handed to writeJson and whether
\* the warning of the catch block was logged
setupTsConfig(file) ==
    IF ~file.exists THEN [tsconfig |-> DefaultTsConfig, warned |-> FALSE]
    ELSE [tsconfig |-> JObj(Put(DefaultTsConfig.m, CompilerOptionsKey,
                                JObj(MergeExisting(file.text).options))),
          warned |-> MergeExisting(file.text).threw]

(***************************************************************************)
(* The Script Injector: readJson and addPackageScripts.                    *)
(***************************************************************************)
ScriptsKey == <<"s", "c", "r", "i", "p", "t", "s">>

\* the three entries addPackageScripts sets
FixedScripts ==
    << <<<<"d", "e", "v">>, JStr(<<"n", "o", "d", "e", "m", "o", "n">>)>>,
       <<<<"b", "u", "i", "l", "d">>, JStr(<<"t", "s", "c">>)>>,
       <<<<"s", "t", "a", "r", "t">>, JStr(<<"n", "o", "d", "e", " ", "d", "i", "s", "t", "/",
           "m", "a", "i", "n", ".", "j", "s">>)>> >>

\* readJson(filePath): the value and whether the warning was logged
readJson(file) ==
    IF ~file.exists THEN [v |-> JObj(<<>>), warned |-> FALSE]
    ELSE IF JsonParse(file.text).ok THEN [v |-> JsonParse(file.text).v, warned |-> FALSE]
    ELSE [v |-> JObj(<<>>), warned |-> TRUE]

\* an addPackageScripts that assigns a fresh scripts object
addPackageScriptsFresh(file) ==
    [warned |-> readJson(file).warned,
     threw  |-> readJson(file).v.t \notin {"obj", "arr"},
     pkg    |-> IF readJson(file).v.t = "obj"
                THEN JObj(Put(readJson(file).v.m, ScriptsKey, JObj(FixedScripts)))
                ELSE readJson(file).v]

\* addPackageScripts up to its write.  The file is an ES module, so strict:
\* setting a property of null or of a primitive is a TypeError (threw);
\* a property set on an array is one JSON.stringify does not write.
addPackageScripts(file) ==
    LET pkg     == readJson(file).v
        had     == IF pkg.t = "obj" THEN Get(pkg.m, ScriptsKey) ELSE Undefined
        scripts == IF Truthy(had) THEN had ELSE JObj(<<>>)
        filled  == IF scripts.t = "obj" THEN JObj(PutAll(scripts.m, FixedScripts, 1))
                   ELSE scripts
    IN  [warned |-> readJson(file).warned,
         threw  |-> pkg.t \notin {"obj", "arr"} \/ scripts.t \notin {"obj", "arr"},
         pkg    |-> IF pkg.t = "obj" THEN JObj(Put(pkg.m, ScriptsKey, filled)) ELSE pkg]

(***************************************************************************)
(* The files the tool writes with fixed content.                           *)
(***************************************************************************)
\* gitignoreContent.trim(), line by line
GitignoreText ==
    <<"# Node.js dependencies", NL, "node_modules/", NL, NL,
      "# Build output", NL, "dist/", NL, NL,
      "# Logs", NL, "logs/", NL, "*.log", NL, NL,
      "# OS files", NL, ".DS_Store", NL, "Thumbs.db">>

\* the object configureNodemon writes
NodemonConfig ==
    JObj(<< <<<<"w", "a", "t", "c", "h">>, JStrings(<<<<"s", "r", "c">>>>)>>,
            <<<<"e", "x", "t">>, JStr(<<"t", "s">>)>>,
            <<<<"e", "x", "e", "c">>, JStr(<<"n", "o", "d", "e", " ", "-", "-", "l", "o", "a",
                "d", "e", "r", " ", "t", "s", "-", "n", "o", "d", "e", "/", "e", "s", "m", " ",
                "s", "r", "c", "/", "m", "a", "i", "n", ".", "t", "s">>)>> >>)

\* a port as collected: the text typed, or the number 3000 of the events
\* revision; PortText is its interpolation into a template literal
PortTyped(s) == [t |-> "str", s |-> s]
PortNumber3000 == [t |-> "num", s |-> <<"3", "0", "0", "0">>]
PortText(p) == p.s

MainTsHead ==
    <<NL, "import express from \"express\";", NL,
      "import type { Request, Response } from \"express\";", NL, NL,
      "const app = express();", NL,
      "const port = process.env.PORT || ">>
MainTsTail ==
    <<";", NL, NL,
      "app.get(\"/\", (req: Request, res: Response) => {", NL,
      "    res.send(\"Hello, TypeScript + Express!\");", NL,
      "});", NL, NL,
      "app.listen(port, () => {", NL,
      "    console.log('Server running at http://localhost:${port}');", NL,
      "});", NL>>
\* the template literal of createSrcMain (the back quotes of the console.log
\* line it generates are written ' here)
MainTsText(p) == MainTsHead \o PortText(p) \o MainTsTail

(***************************************************************************)
(* The environment: the files found in the project directory and what the  *)
(* external commands leave there.                                          *)
(***************************************************************************)
File(text) == [exists |-> TRUE, text |-> text]
NoFile == [exists |-> FALSE, text |-> <<>>]

PackageJson == "package.json"
TsconfigJson == "tsconfig.json"
Gitignore == ".gitignore"
NodemonJson == "nodemon.json"
SrcMainTs == "src/main.ts"
Paths == {PackageJson, TsconfigJson, Gitignore, NodemonJson, SrcMainTs}

\* the characters of a pre-existing option value: a letter and the
\* characters the regular expressions of removeJsonComments look for
ValueChars == {"a", "/", "*", ",", "}"}
Values == TextsUpTo(ValueChars, MaxValueLen)

\* A pre-existing tsconfig.json: "strict": false and one more option, a
\* canonical key (outDir) or another one (baseUrl), written plainly, with
\* comments and trailing commas, or cut short.
Styles == {"plain", "commented", "truncated"}
OptionKeys == {<<"o", "u", "t", "D", "i", "r">>, <<"b", "a", "s", "e", "U", "r", "l">>}
TsDocs(values) ==
    {[style |-> st, key |-> k, value |-> v] : st \in Styles, k \in OptionKeys, v \in values}

RenderTs(d) ==
    CASE d.style = "plain" ->
            <<"{", "\"", "c", "o", "m", "p", "i", "l", "e", "r", "O", "p", "t", "i", "o", "n",
                "s", "\"", ":", "{", "\"", "s", "t", "r", "i", "c", "t", "\"", ":", "f", "a",
                "l", "s", "e", ",", "\"">> \o d.key \o <<"\"", ":", "\"">>
            \o d.value \o <<"\"", "}", "}">>
      [] d.style = "commented" ->
            <<"{", "\n", " ", " ", "/", "/", " ", "p", "r", "o", "j", "e", "c", "t", "\n", " ",
                " ", "\"", "c", "o", "m", "p", "i", "l", "e", "r", "O", "p", "t", "i", "o",
                "n", "s", "\"", ":", " ", "{", "\n", " ", " ", " ", " ", "\"", "s", "t", "r",
                "i", "c", "t", "\"", ":", " ", "f", "a", "l", "s", "e", ",", " ", "/", "*",
                " ", "o", "f", "f", " ", "*", "/", "\n", " ", " ", " ", " ", "\"">>
            \o d.key \o <<"\"", ":", " ", "\"">> \o d.value \o <<"\"", ",", " ", "/", "*", " ",
                "s", "e", "t", " ", "*", "/", "\n", " ", " ", "}", ",", "\n", "}", "\n">>
      [] d.style = "truncated" ->
            <<"{", "\"", "c", "o", "m", "p", "i", "l", "e", "r", "O", "p", "t", "i", "o", "n",
                "s", "\"", ":", "{", "\"", "s", "t", "r", "i", "c", "t", "\"", ":", "f", "a",
                "l", "s", "e", ",", "\"">> \o d.key \o <<"\"", ":", "\"">>
            \o d.value \o <<"\"">>

\* what a JSON-with-comments reader finds in the compilerOptions of the document
TsOptions(d) ==
    IF d.style = "truncated" THEN <<>>
    ELSE << <<<<"s", "t", "r", "i", "c", "t">>, JFalse>>, <<d.key, JStr(d.value)>> >>

\* the tsconfig.json that tsc --init writes, in small: commented-out
\* options, a comment with a URL, comments after the values
TscInitText ==
    <<"{", "\n", " ", " ", "\"", "c", "o", "m", "p", "i", "l", "e", "r", "O", "p", "t", "i",
        "o", "n", "s", "\"", ":", " ", "{", "\n", " ", " ", " ", " ", "/", "*", " ", "V", "i",
        "s", "i", "t", " ", "h", "t", "t", "p", "s", ":", "/", "/", "a", "k", "a", ".", "m",
        "s", "/", "t", "s", "c", "o", "n", "f", "i", "g", " ", "*", "/", "\n">>
    \o <<" ", " ", " ", " ", "/", "/", " ", "\"", "i", "n", "c", "r", "e", "m", "e", "n", "t",
        "a", "l", "\"", ":", " ", "t", "r", "u", "e", ",", "\n">>
    \o <<" ", " ", " ", " ", "\"", "m", "o", "d", "u", "l", "e", "\"", ":", " ", "\"", "c",
        "o", "m", "m", "o", "n", "j", "s", "\"", ",", " ", "/", "*", " ", "m", "o", "d", "u",
        "l", "e", " ", "c", "o", "d", "e", " ", "*", "/", "\n">>
    \o <<" ", " ", " ", " ", "\"", "s", "k", "i", "p", "L", "i", "b", "C", "h", "e", "c", "k",
        "\"", ":", " ", "t", "r", "u", "e", " ", "/", "*", " ", "s", "k", "i", "p", " ", ".",
        "d", ".", "t", "s", " ", "*", "/", "\n", " ", " ", "}", "\n", "}", "\n">>
TscInitOptions ==
    << <<<<"m", "o", "d", "u", "l", "e">>, JStr(<<"c", "o", "m", "m", "o", "n", "j", "s">>)>>,
       <<<<"s", "k", "i", "p", "L", "i", "b", "C", "h", "e", "c", "k">>, JTrue>> >>

\* the scripts npm init may leave in the manifest it writes: its test
\* script, or the scripts of a manifest that was there before
NpmScripts ==
    { << <<<<"t", "e", "s", "t">>, JStr(<<"e", "x", "i", "t", " ", "1">>)>> >>,
      << <<<<"l", "i", "n", "t">>, JStr(<<"e", "s", "l", "i", "n", "t", " ", ".">>)>>, <<<<"d",
          "e", "v">>, JStr(<<"o", "l", "d">>)>> >> }

NpmInitDefault == "npm init -y"
NpmInitInteractive == "npm init"
NpmPkgSetModule == "npm pkg set type=module"
GitInitCommand == "git init"
NpmInstallExpress == "npm install express"
NpmInstallDev == "npm install -D typescript ts-node nodemon @types/node @types/express"
TscInit == "npx tsc --init"

ExitStatuses == {0, 1}

\* the manifest in a file, for a command that edits it
ManifestOf(file) ==
    IF file.exists /\ JsonParse(file.text).ok /\ JsonParse(file.text).v.t = "obj"
    THEN JsonParse(file.text).v.m
    ELSE <<>>

\* What a command that exits with status 0 leaves behind, from the files
\* and the repository flag before it: a set of [fs, git, given].
CommandEffects(command, files, repo, truth, dirName) ==
    LET edit(members) ==
            {[fs    |-> [files EXCEPT ![PackageJson] = File(JsonStringify(JObj(members)))],
              git   |-> repo,
              given |-> truth]}
    IN  CASE command \in {NpmInitDefault, NpmInitInteractive} ->
               {[fs    |-> [files EXCEPT ![PackageJson] =
                               File(JsonStringify(JObj(
                                   << <<<<"n", "a", "m", "e">>, JStr(dirName)>> >>
                                   \o (IF s = <<>> THEN <<>>
                                       ELSE << <<ScriptsKey, JObj(s)>> >>))))],
                 git   |-> repo,
                 given |-> [truth EXCEPT !.manifest = "valid", !.scripts = s]] :
                s \in NpmScripts}
          [] command = NpmPkgSetModule ->
               edit(Put(ManifestOf(files[PackageJson]), <<"t", "y", "p", "e">>, JStr(<<"m",
                   "o", "d", "u", "l", "e">>)))
          [] command = NpmInstallExpress ->
               edit(Put(ManifestOf(files[PackageJson]), <<"d", "e", "p", "e", "n", "d", "e",
                   "n", "c", "i", "e", "s">>,
                        JObj(<< <<<<"e", "x", "p", "r", "e", "s", "s">>, JStr(<<"l", "a", "t",
                            "e", "s", "t">>)>> >>)))
          [] command = NpmInstallDev ->
               edit(Put(ManifestOf(files[PackageJson]), <<"d", "e", "v", "D", "e", "p", "e",
                   "n", "d", "e", "n", "c", "i", "e", "s">>,
                        JObj(<< <<<<"t", "y", "p", "e", "s", "c", "r", "i", "p", "t">>,
                            JStr(<<"l", "a", "t", "e", "s", "t">>)>>,
                                <<<<"n", "o", "d", "e", "m", "o", "n">>, JStr(<<"l", "a", "t",
                                    "e", "s", "t">>)>> >>)))
          [] command = GitInitCommand ->
               {[fs |-> files, git |-> TRUE, given |-> truth]}
          [] command = TscInit ->
               \* tsc --init leaves an existing tsconfig.json alone
               IF files[TsconfigJson].exists
               THEN {[fs |-> files, git |-> repo, given |-> truth]}
               ELSE {[fs    |-> [files EXCEPT ![TsconfigJson] = File(TscInitText)],
                      git   |-> repo,
                      given |-> [truth EXCEPT !.tsconfig = "valid",
                                              !.options = TscInitOptions]]}

(***************************************************************************)
(* The state of a run.                                                     *)
(***************************************************************************)
VARIABLES
    rev,          \* the revision of createProject that runs
    pc,           \* the position in Program(rev) of the next step
    exited,       \* the process has ended
    exitCode,     \* its exit status, once it has ended
    line,         \* the line readline handed to the prompt callback that has
                  \* just run; empty once a later step has run
    projectName,  \* the parameters collected from the prompts
    useDefault,
    port,
    cwd,          \* the working directory: "." or the project directory
    fs,           \* the files of the project directory
    git,          \* the project directory holds a repository
    out,          \* what the process has printed
    done,         \* history: the prompts, commands and file operations so far
    written,      \* history: the paths the tool itself has written
    given         \* history: what the environment has put in the files

vars == <<rev, pc, exited, exitCode, line, projectName, useDefault, port, cwd,
          fs, git, out, done, written, given>>

Revisions == {"events", "direct", "safe"}

\* an events revision whose "port-asked" listener goes on to the installs
\* and leaves src/main.ts to the end
EventsStepsEntrypointLast ==
    <<"askName", "createProjectDir", "askNpmInit", "initNpm", "setPackageModule",
      "setupTsConfig", "askPort", "gitInit", "writeGitignore", "installExpress",
      "installDev", "addPackageScripts", "configureNodemon", "createSrcMain", "finish">>

\* the steps of createProject in the events revision, in the order the
\* listeners hand over to each other
EventsSteps ==
    <<"askName", "createProjectDir", "askNpmInit", "initNpm", "setPackageModule",
      "setupTsConfig", "askPort", "createSrcMain", "gitInit", "writeGitignore",
      "installExpress", "installDev", "addPackageScripts", "configureNodemon", "finish">>

\* the steps of createProject in the direct revision (bare execSync, no git)
DirectSteps ==
    <<"askName", "askNpmInit", "askPort", "createProjectDir", "initNpm",
      "setPackageModule", "addPackageScripts", "installExpress", "installDev",
      "tscInit", "setupTsConfig", "configureNodemon", "createSrcMain", "finish">>

\* the steps of createProject in the safe revision (safeExec, direct calls)
SafeSteps ==
    <<"askName", "askNpmInit", "createProjectDir", "initNpm", "setPackageModule",
      "addPackageScripts", "gitInit", "writeGitignore", "installExpress",
      "installDev", "tscInit", "setupTsConfig", "configureNodemon", "askPort",
      "createSrcMain", "finish">>

\* the steps a run goes through; "merger" and "injector" drive one
\* component: setupTsConfig run MaxPasses times over a tsconfig.json,
\* addPackageScripts run once over a package.json
Program(r) ==
    CASE r = "events" -> EventsSteps
      [] r = "direct" -> DirectSteps
      [] r = "safe" -> SafeSteps
      [] r = "merger" -> [i \in 1..MaxPasses |-> "setupTsConfig"]
      [] r = "injector" -> <<"addPackageScripts">>

At(step) == ~exited /\ pc <= Len(Program(rev)) /\ Program(rev)[pc] = step

\* one line of output: the channel, the fixed text and what is interpolated
Line(ch, msg, arg) == [ch |-> ch, msg |-> msg, arg |-> arg]
Log(msg) == Line("log", msg, <<>>)
\* one entry of the history: status 0, or non-zero for a command that failed
\* or a file operation that threw
Did(kind, what, status) == [kind |-> kind, what |-> what, status |-> status]

\* how a call ends for the process: it returns, or the process ends
Returns == [ends |-> FALSE, lines |-> <<>>, code |-> 0]
Ends(lines, code) == [ends |-> TRUE, lines |-> lines, code |-> code]

\* An exception nothing catches.  Every step runs in a readline callback, so
\* below it on the stack is the event loop: not the try of lines 669-674,
\* which createProject() left when it returned, and not the "error" listener
\* of line 243, which only an emit("error") calls.  Node prints the error
\* and ends the process with status 1.
Uncaught(msg, arg) == Ends(<<Line("uncaught", msg, arg)>>, 1)

\* a safeExec whose catch block is empty
safeExecSwallows(command, status) == Returns

\* safeExec(command), by the exit status of the command
safeExec(command, status) ==
    IF status = 0 THEN Returns
    ELSE Ends(<<Line("error", "Command failed", <<command>>)>>, 1)

\* an execSync wrapped in a try with an empty catch
execSyncSwallowed(command, status) == Returns

\* execSync(command) called bare: its Error("Command failed: " + command)
\* is caught by nothing
execSync(command, status) ==
    IF status = 0 THEN Returns
    ELSE Uncaught("Command failed", <<command>>)

\* writeFileSync and mkdirSync, by whether the file system refuses
FsCall(path, status) ==
    IF status = 0 THEN Returns ELSE Uncaught("file system error", <<path>>)

\* the lines a step logs before and after its command or file operation
Before(r, step) ==
    CASE r = "events" /\ step = "initNpm" -> <<Log("Initializing npm...")>>
      [] r = "events" /\ step = "setPackageModule" ->
            <<Log("Setting package type to module...")>>
      [] r \in {"events", "safe"} /\ step = "gitInit" -> <<Log("Initializing Git...")>>
      [] r \in {"events", "safe"} /\ step = "writeGitignore" ->
            <<Log("Creating .gitignore...")>>
      [] r = "events" /\ step = "installExpress" -> <<Log("Installing dependencies...")>>
      [] r = "events" /\ step = "addPackageScripts" ->
            <<Log("Adding scripts to package.json...")>>
      [] r = "events" /\ step = "configureNodemon" -> <<Log("Configuring nodemon.json...")>>
      [] OTHER -> <<>>

After(r, step) ==
    CASE r = "events" /\ step = "initNpm" -> <<Log("npm initialized")>>
      [] r = "events" /\ step = "setPackageModule" -> <<Log("Package type set to module")>>
      [] r \in {"events", "safe"} /\ step = "writeGitignore" ->
            <<Log("Git initialized and .gitignore created")>>
      [] r = "events" /\ step = "installDev" -> <<Log("Dependencies installed")>>
      [] step = "addPackageScripts" -> <<Log("Scripts added to package.json")>>
      [] step = "setupTsConfig" -> <<Log("tsconfig.json ready")>>
      [] r = "events" /\ step = "configureNodemon" -> <<Log("nodemon.json created")>>
      [] r = "events" /\ step = "createSrcMain" -> <<Log("src/main.ts created")>>
      [] r = "events" /\ step = "createProjectDir" ->
            <<Line("log", "Project directory created and entered", projectName)>>
      [] OTHER -> <<>>

\* the step is over: either the workflow goes on to the next step, or the
\* process has ended
Finish(step, before, outcome) ==
    IF outcome.ends
    THEN /\ out' = out \o before \o outcome.lines
         /\ exited' = TRUE
         /\ exitCode' = outcome.code
         /\ pc' = pc
    ELSE /\ out' = out \o before \o After(rev, step)
         /\ pc' = pc + 1
         /\ UNCHANGED <<exited, exitCode>>

(***************************************************************************)
(* The steps.                                                              *)
(***************************************************************************)
\* the lines that may be typed at each prompt
NameAnswers == TextsUpTo({" ", "a"}, MaxAnswerLen)
NpmInitAnswers == TextsUpTo({" ", "n", "N", "y"}, MaxAnswerLen)
PortAnswers == TextsUpTo({" ", "8"}, MaxAnswerLen)

MyApp == <<"m", "y", "-", "a", "p", "p">>

\* name.trim() || "my-app"
ProjectNameOf(name) == IF Trim(name) # <<>> THEN Trim(name) ELSE MyApp

\* a comparison that forgets toLowerCase()
UseDefaultOfExact(answer) == Trim(answer) # <<"n">>

\* answer.trim().toLowerCase() !== "n"
UseDefaultOf(answer) == ToLowerCase(Trim(answer)) # <<"n">>

\* port.trim() || 3000 in the events revision, portAnswer.trim() || "3000"
\* in the other two
PortOf(r, answer) ==
    IF Trim(answer) # <<>> THEN PortTyped(Trim(answer))
    ELSE IF r = "events" THEN PortNumber3000
    ELSE PortTyped(<<"3", "0", "0", "0">>)

\* rl.question("Enter project name (default: my-app): ", ...)
AskName ==
    /\ At("askName")
    /\ \E name \in NameAnswers :
          /\ line' = name
          /\ projectName' = ProjectNameOf(name)
    /\ done' = Append(done, Did("prompt", <<"name">>, 0))
    /\ pc' = pc + 1
    /\ UNCHANGED <<rev, exited, exitCode, useDefault, port, cwd, fs, git, out, written,
                   given>>

\* rl.question("Use default npm init? (Y/n): ", ...)
AskNpmInit ==
    /\ At("askNpmInit")
    /\ \E answer \in NpmInitAnswers :
          /\ line' = answer
          /\ useDefault' = UseDefaultOf(answer)
    /\ done' = Append(done, Did("prompt", <<"npm init">>, 0))
    /\ pc' = pc + 1
    /\ UNCHANGED <<rev, exited, exitCode, projectName, port, cwd, fs, git, out, written,
                   given>>

\* rl.question("Enter port number (default: 3000): ", ...)
AskPort ==
    /\ At("askPort")
    /\ \E answer \in PortAnswers :
          /\ line' = answer
          /\ port' = PortOf(rev, answer)
    /\ done' = Append(done, Did("prompt", <<"port">>, 0))
    /\ pc' = pc + 1
    /\ UNCHANGED <<rev, exited, exitCode, projectName, useDefault, cwd, fs, git, out,
                   written, given>>

\* mkdirSync(projectName, { recursive: true }), which throws where the
\* directory cannot be made, then process.chdir(projectName)
CreateProjectDir ==
    /\ At("createProjectDir")
    /\ \E status \in ExitStatuses :
          /\ done' = Append(done, Did("mkdir", projectName, status))
          /\ cwd' = IF status = 0 THEN projectName ELSE cwd
          /\ Finish("createProjectDir", <<>>, FsCall("project directory", status))
    /\ line' = <<>>
    /\ UNCHANGED <<rev, projectName, useDefault, port, fs, git, written, given>>

\* One external command: the child runs to its end and the tool looks at
\* its exit status, through safeExec or, in the direct revision, not at all.
RunCommand(step, command) ==
    /\ At(step)
    /\ \E status \in ExitStatuses, e \in CommandEffects(command, fs, git, given, cwd) :
          /\ done' = Append(done, Did("exec", <<command>>, status))
          /\ IF status = 0
             THEN fs' = e.fs /\ git' = e.git /\ given' = e.given
             ELSE UNCHANGED <<fs, git, given>>
          /\ Finish(step, Before(rev, step),
                    IF rev = "direct" THEN execSync(command, status)
                    ELSE safeExec(command, status))
    /\ line' = <<>>
    /\ UNCHANGED <<rev, projectName, useDefault, port, cwd, written>>

\* writeFileSync(path, text), which throws where the file cannot be written
WriteFile(step, path, text, before) ==
    /\ At(step)
    /\ \E status \in ExitStatuses :
          /\ done' = Append(done, Did("write", <<path>>, status))
          /\ fs' = IF status = 0 THEN [fs EXCEPT ![path] = File(text)] ELSE fs
          /\ written' = IF status = 0 THEN written \cup {path} ELSE written
          /\ Finish(step, before, FsCall(path, status))
    /\ line' = <<>>
    /\ UNCHANGED <<rev, projectName, useDefault, port, cwd, git, given>>

\* initNpm
InitNpm ==
    /\ At("initNpm")
    /\ RunCommand("initNpm", IF useDefault THEN NpmInitDefault ELSE NpmInitInteractive)

\* setPackageModule
SetPackageModule ==
    /\ At("setPackageModule")
    /\ RunCommand("setPackageModule", NpmPkgSetModule)

\* createGitAndIgnore, first half: git init
GitInit ==
    /\ At("gitInit")
    /\ RunCommand("gitInit", GitInitCommand)

\* createGitAndIgnore, second half: the ignore file
WriteGitignore ==
    /\ At("writeGitignore")
    /\ WriteFile("writeGitignore", Gitignore, GitignoreText, Before(rev, "writeGitignore"))

\* npm install express
InstallExpress ==
    /\ At("installExpress")
    /\ RunCommand("installExpress", NpmInstallExpress)

\* npm install -D ...
InstallDev ==
    /\ At("installDev")
    /\ RunCommand("installDev", NpmInstallDev)

\* npx tsc --init, in the direct and safe revisions
RunTscInit ==
    /\ At("tscInit")
    /\ RunCommand("tscInit", TscInit)

\* setupTsConfig: the merge, the warning of its catch block, writeJson
SetupTsConfig ==
    /\ At("setupTsConfig")
    /\ WriteFile("setupTsConfig", TsconfigJson,
                 JsonStringify(setupTsConfig(fs[TsconfigJson]).tsconfig),
                 IF setupTsConfig(fs[TsconfigJson]).warned
                 THEN <<Line("warn", "Failed to parse existing tsconfig.json, using default.",
                             <<>>)>>
                 ELSE <<>>)

\* the line readJson logs in its catch block
ReadJsonWarning(file) ==
    IF readJson(file).warned
    THEN <<Line("warn", "Failed to parse, using empty object.", <<PackageJson>>)>>
    ELSE <<>>

\* addPackageScripts: readJson and its warning, the three scripts, writeJson;
\* a TypeError of the assignments is caught by nothing
AddPackageScripts ==
    /\ At("addPackageScripts")
    /\ IF addPackageScripts(fs[PackageJson]).threw
       THEN /\ Finish("addPackageScripts",
                      Before(rev, "addPackageScripts") \o ReadJsonWarning(fs[PackageJson]),
                      Uncaught("TypeError", <<PackageJson>>))
            /\ line' = <<>>
            /\ UNCHANGED <<rev, projectName, useDefault, port, cwd, fs, git, done,
                           written, given>>
       ELSE WriteFile("addPackageScripts", PackageJson,
                      JsonStringify(addPackageScripts(fs[PackageJson]).pkg),
                      Before(rev, "addPackageScripts") \o ReadJsonWarning(fs[PackageJson]))

\* configureNodemon
ConfigureNodemon ==
    /\ At("configureNodemon")
    /\ WriteFile("configureNodemon", NodemonJson, JsonStringify(NodemonConfig),
                 Before(rev, "configureNodemon"))

\* createSrcMain: mkdirSync("src") and writeFileSync("src/main.ts", ...);
\* either may throw, with nothing written
CreateSrcMain ==
    /\ At("createSrcMain")
    /\ WriteFile("createSrcMain", SrcMainTs, MainTsText(port), <<>>)

\* The end of the workflow: process.exit(0) in the "finish" listener of the
\* events revision, rl.close() in the other two, after which nothing keeps
\* the process alive and it ends with status 0.
FinishRun ==
    /\ At("finish")
    /\ out' = out \o <<Line("log", "Project created!", projectName)>>
                  \o (IF rev = "events" THEN <<Log("Project created successfully!")>>
                      ELSE <<>>)
    /\ exited' = TRUE
    /\ exitCode' = 0
    /\ pc' = pc + 1
    /\ line' = <<>>
    /\ UNCHANGED <<rev, projectName, useDefault, port, cwd, fs, git, done, written,
                   given>>

(***************************************************************************)
(* The specifications.                                                     *)
(***************************************************************************)
NoFiles == [p \in Paths |-> NoFile]

\* given: the kind of tsconfig.json and of package.json the environment has
\* put there ("none", "valid", "malformed", "null") and what they hold
Given(tsconfig, options, manifest, scripts) ==
    [tsconfig |-> tsconfig, options |-> options, manifest |-> manifest, scripts |-> scripts]

TsKind(d) == IF d.style = "truncated" THEN "malformed" ELSE "valid"

Start(r, files, truth) ==
    /\ rev = r
    /\ pc = 1
    /\ exited = FALSE
    /\ exitCode = 0
    /\ line = <<>>
    /\ projectName = <<>>
    /\ useDefault = TRUE
    /\ port = PortTyped(<<>>)
    /\ cwd = <<".">>
    /\ fs = files
    /\ git = FALSE
    /\ out = <<>>
    /\ done = <<>>
    /\ written = {}
    /\ given = truth

\* the tsconfig.json a run of the whole tool may find in a project directory
\* that was there before
FoundTsDocs ==
    {[style |-> "commented", key |-> <<"b", "a", "s", "e", "U", "r", "l">>, value |-> <<"a">>],
     [style |-> "plain", key |-> <<"b", "a", "s", "e", "U", "r", "l">>, value |-> <<"/", "/">>],
     [style |-> "truncated", key |-> <<"b", "a", "s", "e", "U", "r", "l">>, value |-> <<"a">>]}

\* A run of the tool, in any of the three revisions, in a directory that is
\* new or holds a tsconfig.json: one with comments, one whose option value
\* is "//", one cut short.
Init ==
    \E r \in Revisions :
        \/ Start(r, NoFiles, Given("none", <<>>, "none", <<>>))
        \/ \E d \in FoundTsDocs :
              Start(r, [NoFiles EXCEPT ![TsconfigJson] = File(RenderTs(d))],
                    Given(TsKind(d), TsOptions(d), "none", <<>>))

Next ==
    \/ AskName
    \/ AskNpmInit
    \/ AskPort
    \/ CreateProjectDir
    \/ InitNpm
    \/ SetPackageModule
    \/ GitInit
    \/ WriteGitignore
    \/ InstallExpress
    \/ InstallDev
    \/ RunTscInit
    \/ SetupTsConfig
    \/ AddPackageScripts
    \/ ConfigureNodemon
    \/ CreateSrcMain
    \/ FinishRun

Spec == Init /\ [][Next]_vars

\* The Config Merger alone, over every pre-existing tsconfig.json of the
\* bounds, no file, and the text "null".
InitMerger ==
    \/ Start("merger", NoFiles, Given("none", <<>>, "none", <<>>))
    \/ Start("merger", [NoFiles EXCEPT ![TsconfigJson] = File(<<"n", "u", "l", "l">>)],
             Given("null", <<>>, "none", <<>>))
    \/ \E d \in TsDocs(Values) :
          Start("merger", [NoFiles EXCEPT ![TsconfigJson] = File(RenderTs(d))],
                Given(TsKind(d), TsOptions(d), "none", <<>>))

NextMerger == SetupTsConfig

SpecMerger == InitMerger /\ [][NextMerger]_vars

\* A package.json: none, the text "null", or a manifest with a "dev" script
\* and one more script, whole or cut short, or with no scripts at all.
ScriptKeys == {<<"l", "i", "n", "t">>, <<"b", "u", "i", "l", "d">>}
ManifestKinds == {"valid", "malformed", "bare"}
ManifestDocs ==
    {[kind |-> kind, key |-> k, value |-> v] :
        kind \in ManifestKinds, k \in ScriptKeys, v \in Values}

RenderManifest(d) ==
    CASE d.kind = "valid" ->
            <<"{", "\"", "n", "a", "m", "e", "\"", ":", "\"", "x", "\"", ",", "\"", "s", "c",
                "r", "i", "p", "t", "s", "\"", ":", "{", "\"">> \o d.key \o <<"\"", ":",
                "\"">> \o d.value
            \o <<"\"", ",", "\"", "d", "e", "v", "\"", ":", "\"", "o", "l", "d", "\"", "}", "}">>
      [] d.kind = "malformed" ->
            <<"{", "\"", "n", "a", "m", "e", "\"", ":", "\"", "x", "\"", ",", "\"", "s", "c",
                "r", "i", "p", "t", "s", "\"", ":", "{", "\"">> \o d.key \o <<"\"", ":",
                "\"">> \o d.value
            \o <<"\"", ",", "\"", "d", "e", "v", "\"", ":">>
      [] d.kind = "bare" -> <<"{", "\"", "n", "a", "m", "e", "\"", ":", "\"", "x", "\"", "}">>

ManifestScripts(d) ==
    IF d.kind = "valid"
    THEN << <<d.key, JStr(d.value)>>, <<<<"d", "e", "v">>, JStr(<<"o", "l", "d">>)>> >>
    ELSE <<>>

\* The Script Injector alone.
InitInjector ==
    \/ Start("injector", NoFiles, Given("none", <<>>, "none", <<>>))
    \/ Start("injector", [NoFiles EXCEPT ![PackageJson] = File(<<"n", "u", "l", "l">>)],
             Given("none", <<>>, "null", <<>>))
    \/ \E d \in ManifestDocs :
          Start("injector", [NoFiles EXCEPT ![PackageJson] = File(RenderManifest(d))],
                Given("none", <<>>, IF d.kind = "bare" THEN "valid" ELSE d.kind,
                      ManifestScripts(d)))

NextInjector == AddPackageScripts

SpecInjector == InitInjector /\ [][NextInjector]_vars

(***************************************************************************)
(* Properties: the failure policy of external commands.                    *)
(***************************************************************************)
FailedCommand(i) == done[i].kind = "exec" /\ done[i].status # 0

\* C1: in every revision, once an external command has returned non-zero,
\* the failing command is the last thing printed, the process has ended
\* with status 1, that command is the last step taken and no step can
\* follow, and what was made before is still there: every file the tool had
\* written, and the project directory as working directory.
C1_FailedCommandEndsTheRun ==
    \A i \in 1..Len(done) :
        FailedCommand(i) =>
            /\ exited /\ exitCode = 1
            /\ i = Len(done)
            /\ ~ENABLED Next
            /\ out # <<>>
            /\ out[Len(out)].msg = "Command failed"
            /\ out[Len(out)].arg = done[i].what
            /\ \A p \in written : fs[p].exists
            /\ cwd = projectName

\* a command has failed in the direct revision, after the tool wrote files
C1_Witness ==
    /\ rev = "direct"
    /\ written # {}
    /\ \E i \in 1..Len(done) : FailedCommand(i)

FailedInstall ==
    \E i \in 1..Len(done) :
        FailedCommand(i) /\ done[i].what \in {<<NpmInstallExpress>>, <<NpmInstallDev>>}

WrittenTsconfig == JsonParse(fs[TsconfigJson].text)
WrittenOptions == Get(WrittenTsconfig.v.m, CompilerOptionsKey)

CanonicalValues ==
    { <<<<"m", "o", "d", "u", "l", "e">>, JStr(<<"E", "S", "N", "e", "x", "t">>)>>, <<<<"t",
        "a", "r", "g", "e", "t">>, JStr(<<"E", "S", "2", "0", "2", "0">>)>>,
      <<<<"o", "u", "t", "D", "i", "r">>, JStr(<<"d", "i", "s", "t">>)>>, <<<<"r", "o", "o",
          "t", "D", "i", "r">>, JStr(<<"s", "r", "c">>)>>,
      <<<<"s", "t", "r", "i", "c", "t">>, JTrue>>, <<<<"e", "s", "M", "o", "d", "u", "l", "e",
          "I", "n", "t", "e", "r", "o", "p">>, JTrue>>,
      <<<<"m", "o", "d", "u", "l", "e", "R", "e", "s", "o", "l", "u", "t", "i", "o", "n">>,
          JStr(<<"n", "o", "d", "e">>)>> }
CanonicalKeys == {kv[1] : kv \in CanonicalValues}

\* C3: whatever tsconfig.json was there, parsable or not, once setupTsConfig
\* has written the file its compilerOptions holds each of the seven
\* canonical keys with its canonical value.
C3_CanonicalKeysWin ==
    TsconfigJson \in written =>
        /\ WrittenTsconfig.ok /\ WrittenTsconfig.v.t = "obj"
        /\ WrittenOptions.t = "obj"
        /\ \A kv \in CanonicalValues :
              HasKey(WrittenOptions.m, kv[1]) /\ Get(WrittenOptions.m, kv[1]) = kv[2]

\* one pass over a tsconfig.json whose outDir and strict were not canonical
C3_Witness ==
    /\ pc = 2
    /\ TsconfigJson \in written
    /\ given.tsconfig = "valid"
    /\ HasKey(given.options, <<"o", "u", "t", "D", "i", "r">>)
    /\ Get(given.options, <<"o", "u", "t", "D", "i", "r">>) # JStr(<<"d", "i", "s", "t">>)
    /\ Get(given.options, <<"s", "t", "r", "i", "c", "t">>) = JFalse

\* C4: every option of the tsconfig.json that was there, other than the
\* seven canonical ones, is in the compilerOptions setupTsConfig writes,
\* with its value.
C4_OtherOptionsSurvive ==
    (TsconfigJson \in written /\ given.tsconfig = "valid") =>
        \A i \in 1..Len(given.options) :
            given.options[i][1] \notin CanonicalKeys =>
                /\ WrittenTsconfig.ok /\ WrittenOptions.t = "obj"
                /\ HasKey(WrittenOptions.m, given.options[i][1])
                /\ Get(WrittenOptions.m, given.options[i][1]) = given.options[i][2]

DefaultsOnly ==
    JObj(<< <<<<"c", "o", "m", "p", "i", "l", "e", "r", "O", "p", "t", "i", "o", "n", "s">>,
              JObj(<< <<<<"m", "o", "d", "u", "l", "e">>, JStr(<<"E", "S", "N", "e", "x", "t">>)>>,
                      <<<<"t", "a", "r", "g", "e", "t">>, JStr(<<"E", "S", "2", "0", "2", "0">>)>>,
                      <<<<"o", "u", "t", "D", "i", "r">>, JStr(<<"d", "i", "s", "t">>)>>,
                      <<<<"r", "o", "o", "t", "D", "i", "r">>, JStr(<<"s", "r", "c">>)>>,
                      <<<<"s", "t", "r", "i", "c", "t">>, JTrue>>,
                      <<<<"e", "s", "M", "o", "d", "u", "l", "e", "I", "n", "t", "e", "r", "o",
                          "p">>, JTrue>>,
                      <<<<"m", "o", "d", "u", "l", "e", "R", "e", "s", "o", "l", "u", "t", "i",
                          "o", "n">>, JStr(<<"n", "o", "d", "e">>)>> >>)>>,
            <<<<"i", "n", "c", "l", "u", "d", "e">>, JStrings(<<<<"s", "r", "c", "/", "*", "*",
                "/", "*">>>>)>>,
            <<<<"e", "x", "c", "l", "u", "d", "e">>, JStrings(<<<<"n", "o", "d", "e", "_", "m",
                "o", "d", "u", "l", "e", "s">>, <<"d", "i", "s", "t">>>>)>> >>)

ParseWarning == "Failed to parse existing tsconfig.json, using default."

\* setupTsConfig is about to run over a tsconfig.json whose stripped text
\* does not parse
MalformedAhead ==
    /\ At("setupTsConfig")
    /\ fs[TsconfigJson].exists
    /\ ~JsonParse(removeJsonComments(fs[TsconfigJson].text)).ok

\* C5: a setupTsConfig that runs over a tsconfig.json whose stripped text
\* does not parse, and whose write goes through, prints the warning, leaves
\* a tsconfig.json that reads as exactly the defaults, and hands over to the
\* next step with the process alive.
C5_MalformedFallsBack ==
    [][(MalformedAhead /\ TsconfigJson \in written')
        => /\ \E k \in (Len(out) + 1)..Len(out') :
                 out'[k].ch = "warn" /\ out'[k].msg = ParseWarning
           /\ JsonParse(fs'[TsconfigJson].text).ok
           /\ JsonParse(fs'[TsconfigJson].text).v = DefaultsOnly
           /\ ~exited'
           /\ pc' = pc + 1]_vars

\* a run that found a truncated tsconfig.json, warned, and went on to its end
C5_Witness ==
    /\ given.tsconfig = "malformed"
    /\ \E k \in 1..Len(out) : out[k].ch = "warn" /\ out[k].msg = ParseWarning
    /\ TsconfigJson \in written
    /\ exited /\ exitCode = 0

(***************************************************************************)
(* Properties: the Script Injector.                                        *)
(***************************************************************************)
WrittenManifest == JsonParse(fs[PackageJson].text)
WrittenScripts == Get(WrittenManifest.v.m, ScriptsKey)

InjectedScripts ==
    { <<<<"d", "e", "v">>, JStr(<<"n", "o", "d", "e", "m", "o", "n">>)>>, <<<<"b", "u", "i",
        "l", "d">>, JStr(<<"t", "s", "c">>)>>,
      <<<<"s", "t", "a", "r", "t">>, JStr(<<"n", "o", "d", "e", " ", "d", "i", "s", "t", "/",
          "m", "a", "i", "n", ".", "j", "s">>)>> }
InjectedNames == {kv[1] : kv \in InjectedScripts}

\* C6: over a manifest that is missing, unparsable, or an object whose
\* scripts are absent or a map, the package.json addPackageScripts writes
\* has dev, build and start set to the three fixed commands, and every
\* script the manifest had under another name, with its value.
C6_ScriptsInjected ==
    (PackageJson \in written /\ given.manifest \in {"none", "malformed", "valid"}) =>
        /\ WrittenManifest.ok /\ WrittenManifest.v.t = "obj"
        /\ WrittenScripts.t = "obj"
        /\ \A kv \in InjectedScripts :
              HasKey(WrittenScripts.m, kv[1]) /\ Get(WrittenScripts.m, kv[1]) = kv[2]
        /\ \A i \in 1..Len(given.scripts) :
              given.scripts[i][1] \notin InjectedNames =>
                  /\ HasKey(WrittenScripts.m, given.scripts[i][1])
                  /\ Get(WrittenScripts.m, given.scripts[i][1]) = given.scripts[i][2]

\* the manifest had a lint script and a dev script of its own
C6_Witness ==
    /\ PackageJson \in written
    /\ given.manifest = "valid"
    /\ HasKey(given.scripts, <<"l", "i", "n", "t">>)
    /\ Get(given.scripts, <<"d", "e", "v">>) = JStr(<<"o", "l", "d">>)

(***************************************************************************)
(* Properties: the whole workflow.                                         *)
(***************************************************************************)
IsPrefix(a, b) == Len(a) <= Len(b) /\ SubSeq(b, 1, Len(a)) = a
IsSuffix(a, b) == Len(a) <= Len(b) /\ SubSeq(b, Len(b) - Len(a) + 1, Len(b)) = a

\* C7: a run in which every external command succeeded (and no file
\* operation was refused) has ended with status 0 and left the five outputs:
\* a manifest with type module and the three scripts, a tsconfig.json with
\* outDir dist and rootDir src, a src/main.ts with the collected port as its
\* fallback port, a .gitignore with the line node_modules/, and a
\* nodemon.json whose exec names src/main.ts.
C7_FiveOutputs ==
    (exited /\ \A i \in 1..Len(done) : done[i].status = 0) =>
        /\ exitCode = 0
        /\ WrittenManifest.ok /\ WrittenManifest.v.t = "obj"
        /\ Get(WrittenManifest.v.m, <<"t", "y", "p", "e">>) = JStr(<<"m", "o", "d", "u", "l", "e">>)
        /\ WrittenScripts.t = "obj"
        /\ \A kv \in InjectedScripts : Get(WrittenScripts.m, kv[1]) = kv[2]
        /\ WrittenTsconfig.ok /\ WrittenOptions.t = "obj"
        /\ Get(WrittenOptions.m, <<"o", "u", "t", "D", "i", "r">>) = JStr(<<"d", "i", "s", "t">>)
        /\ Get(WrittenOptions.m, <<"r", "o", "o", "t", "D", "i", "r">>) = JStr(<<"s", "r", "c">>)
        /\ fs[SrcMainTs].exists
        /\ fs[SrcMainTs].text = MainTsHead \o PortText(port) \o MainTsTail
        /\ fs[Gitignore].exists
        /\ \E k \in 1..Len(fs[Gitignore].text) : fs[Gitignore].text[k] = "node_modules/"
        /\ fs[NodemonJson].exists
        /\ JsonParse(fs[NodemonJson].text).ok
        /\ IsSuffix(<<"s", "r", "c", "/", "m", "a", "i", "n", ".", "t", "s">>,
            Get(JsonParse(fs[NodemonJson].text).v.m, <<"e", "x", "e", "c">>).s)

\* the component of the design each entry of the history belongs to
ComponentOf(e) ==
    CASE e.kind = "prompt" -> "Prompt Sequence"
      [] e.kind = "mkdir" -> "Directory Bootstrapper"
      [] e.kind = "exec" /\ e.what \in {<<"npm init -y">>, <<"npm init">>,
                                         <<"npm pkg set type=module">>} ->
            "Manifest Initializer"
      [] e.kind = "exec" /\ e.what = <<"npx tsc --init">> -> "Config Merger"
      [] e.kind = "write" /\ e.what = <<"tsconfig.json">> -> "Config Merger"
      [] e.kind = "write" /\ e.what = <<"package.json">> -> "Script Injector"
      [] e.kind = "exec" /\ e.what = <<"git init">> -> "VCS Bootstrapper"
      [] e.kind = "write" /\ e.what = <<".gitignore">> -> "VCS Bootstrapper"
      [] e.kind = "write" /\ e.what = <<"nodemon.json">> -> "Watcher Config Writer"
      [] e.kind = "write" /\ e.what = <<"src/main.ts">> -> "Entrypoint Generator"
      [] OTHER -> "Dependency Installer"

RECURSIVE Squash(_)
\* a sequence with each run of equal neighbours made one
Squash(s) ==
    IF Len(s) <= 1 THEN s
    ELSE IF s[1] = s[2] THEN Squash(Tail(s))
    ELSE <<s[1]>> \o Squash(Tail(s))

\* the components that have run, in order, with and without the prompts
ComponentsRun == Squash([i \in 1..Len(done) |-> ComponentOf(done[i])])
WorkRun ==
    Squash(SelectSeq([i \in 1..Len(done) |-> ComponentOf(done[i])],
                     LAMBDA c : c # "Prompt Sequence"))

DesignOrder ==
    <<"Directory Bootstrapper", "Manifest Initializer", "Config Merger",
      "Script Injector", "VCS Bootstrapper", "Dependency Installer",
      "Watcher Config Writer", "Entrypoint Generator">>

EventsOrder ==
    <<"Prompt Sequence", "Directory Bootstrapper", "Prompt Sequence",
      "Manifest Initializer", "Config Merger", "Prompt Sequence",
      "Entrypoint Generator", "VCS Bootstrapper", "Dependency Installer",
      "Script Injector", "Watcher Config Writer">>
DirectOrder ==
    <<"Prompt Sequence", "Directory Bootstrapper", "Manifest Initializer",
      "Script Injector", "Dependency Installer", "Config Merger",
      "Watcher Config Writer", "Entrypoint Generator">>
SafeOrder ==
    <<"Prompt Sequence", "Directory Bootstrapper", "Manifest Initializer",
      "Script Injector", "VCS Bootstrapper", "Dependency Installer", "Config Merger",
      "Watcher Config Writer", "Prompt Sequence", "Entrypoint Generator">>
OrderOf(r) ==
    CASE r = "events" -> EventsOrder [] r = "direct" -> DirectOrder [] r = "safe" -> SafeOrder

FailedFsCall(i) == done[i].kind \in {"mkdir", "write"} /\ done[i].status # 0

\* C9: when a directory creation or a file write is refused, a handler of
\* the tool prints the error, the process has ended with status 1, nothing
\* runs after the refused call, and a refused directory creation comes
\* before any external command.
C9_HandlerCatches ==
    \A i \in 1..Len(done) :
        FailedFsCall(i) =>
            /\ exited /\ exitCode = 1
            /\ i = Len(done)
            /\ out # <<>> /\ out[Len(out)].ch \in {"error", "log"}
            /\ done[i].kind = "mkdir" => \A j \in 1..Len(done) : done[j].kind # "exec"

(***************************************************************************)
(* Properties: the prompts.                                                *)
(***************************************************************************)
Blank(s) == \A i \in 1..Len(s) : s[i] \in {" ", "\t", "\n"}

\* t is s without its leading and trailing white space
IsTrimOf(t, s) ==
    /\ t # <<>>
    /\ ~Blank(<<t[1]>>) /\ ~Blank(<<t[Len(t)]>>)
    /\ \E a \in 0..Len(s) :
          /\ a + Len(t) <= Len(s)
          /\ SubSeq(s, a + 1, a + Len(t)) = t
          /\ Blank(SubSeq(s, 1, a))
          /\ Blank(SubSeq(s, a + Len(t) + 1, Len(s)))

\* the prompt callback of the step has just run
Just(step) == ~exited /\ pc > 1 /\ Program(rev)[pc - 1] = step

\* C10: a blank answer gives the default (my-app, npm init -y, 3000), any
\* other answer is used trimmed, only n or N selects the interactive npm
\* init, the npm init command that runs is the one selected, and the port
\* collected is the fallback port written into src/main.ts.
C10_PromptDefaults ==
    /\ Just("askName") =>
          IF Blank(line) THEN projectName = <<"m", "y", "-", "a", "p",
              "p">> ELSE IsTrimOf(projectName, line)
    /\ Just("askNpmInit") =>
          (useDefault <=> ~(IsTrimOf(<<"n">>, line) \/ IsTrimOf(<<"N">>, line)))
    /\ Just("askPort") =>
          IF Blank(line) THEN PortText(port) = <<"3", "0", "0", "0">>
          ELSE IsTrimOf(PortText(port), line)
    /\ \A i \in 1..Len(done) :
          (done[i].kind = "exec" /\ done[i].what \in {<<"npm init -y">>, <<"npm init">>}) =>
              done[i].what = IF useDefault THEN <<"npm init -y">> ELSE <<"npm init">>
    /\ SrcMainTs \in written =>
          fs[SrcMainTs].text = MainTsHead \o PortText(port) \o MainTsTail

\* a padded N was typed at the npm init prompt
C10_Witness ==
    /\ Just("askNpmInit")
    /\ line = <<" ", "N">>
    /\ ~useDefault


(***************************************************************************)
(* Properties: the Config Merger run again over its own output.            *)
(***************************************************************************)
\* setupTsConfig runs over a tsconfig.json that an earlier pass wrote, and
\* its write goes through
LaterPass ==
    /\ At("setupTsConfig")
    /\ TsconfigJson \in written
    /\ pc' = pc + 1

\* C11: whatever tsconfig.json was there at first, a pass of setupTsConfig
\* over the file an earlier pass wrote writes that same file again: no
\* compilerOptions key changes, include and exclude stay the fixed values.
C11_LaterPassChangesNothing ==
    [][LaterPass => fs'[TsconfigJson].text = fs[TsconfigJson].text]_vars
====
